---- MODULE Spec2Model ----
(***************************************************************************)
(* Classroom scheduling optimisation (src/class.py).                       *)
(*                                                                         *)
(* The script generates a Parameter Set (generate_data), builds a binary   *)
(* program over Schedule[c,r,d,t] with seven constraint families           *)
(* (solve_scheduling_optimization), hands it to the HiGHS engine, and on   *)
(* the button press projects the returned values into schedule_data and    *)
(* one of three messages (success / warning / error).  generate_data is    *)
(* memoised by st.cache_data under its seed argument; moving a slider      *)
(* reruns the script and calls it again.                                   *)
(*                                                                         *)
(* Entities are numbered in list order: course i is "Course_i", room j is  *)
(* "Room_j", and so on, so that the nested loops of the script run in      *)
(* increasing index order.  The professor list is the one generate_data    *)
(* builds at line 56; generate_data does not return it, and the model      *)
(* builder (line 145) and the projection (line 279) read it under the name *)
(* `professors`, so the model takes that list as the one in scope there.   *)
(***************************************************************************)
EXTENDS Integers, Sequences, FiniteSets, TLC

\* ------------------------------------------------------------------ bounds
NumCourses == 2
NumClassrooms == 2
NumDays == 1
NumTimeSlots == 2
NumProfessors == 1
MaxCourseSessions == 2
\* Number of professors where the order of the professor list matters.
SeveralProfessors == 2

\* ------------------------------------------------- constants of the script
MinCourseSessions == 1
NumRoomTypes == 4
MaxAssigned == 3
DefaultSeed == 42

\* Representative values of the sliders and of the random draws.
SpecializationLevels == 0 .. 100
TierLevels == {0, 20, 21, 60, 61, 100}
EnrollmentValues == {30, 60}
CapacityValues == {40, 90}

\* ------------------------------------------------------------ entity lists
classrooms == 1 .. NumClassrooms
days == 1 .. NumDays
time_slots == 1 .. NumTimeSlots
periods == days \X time_slots
RoomTypes == 0 .. (NumRoomTypes - 1)

VARIABLES
    num_courses,              \* slider value: number of courses
    num_professors,           \* slider value: number of professors
    classroom_specialization, \* slider value, 0..100
    course_room_type,         \* course -> 0..3
    room_type,                \* classroom -> 0..3
    course_sessions,          \* course -> required sessions
    enrollment,               \* course -> students
    capacity,                 \* classroom -> seats
    room_compatibility,       \* <<course, classroom>> -> 0/1
    prof_course_assignments,  \* <<professor, course>> -> 0/1
    prof_availability,        \* <<professor, period>> -> 0/1
    course_preferred_periods, \* course -> set of preferred periods
    cached_seeds,             \* keys of the entries st.cache_data holds for generate_data
    model,                    \* the Pyomo model of the last run, or NotBuilt
    termination,              \* engine's termination condition of the last solve
    status,                   \* results.solver.status of the last solve
    schedule_data,            \* the emitted records, in loop order
    metrics,                  \* the summary metrics of the last run, or NoMetrics
    message,                  \* what the page shows for the last run
    pc

courses == 1 .. num_courses
professors == 1 .. num_professors

\* Index set of the decision grid model.Schedule.
ScheduleIndex == courses \X classrooms \X days \X time_slots

controls == <<num_courses, num_professors, classroom_specialization>>
\* The values the seeded generator draws.
draws == <<course_room_type, room_type, course_sessions, enrollment, capacity,
           prof_course_assignments, prof_availability, course_preferred_periods>>
params == <<controls, draws, room_compatibility, cached_seeds>>
outputs == <<model, termination, status, schedule_data, metrics, message>>
vars == <<params, outputs, pc>>

NotGenerated == "NotGenerated"
NotBuilt == "NotBuilt"
\* No value loaded: a grid over a cell that is no cell of any model.
NoValues == [i \in {<<0, 0, 0, 0>>} |-> 0]
NoResult == "none"
NoMetrics == [computed |-> FALSE]

\* sum(f[1], ..., f[n]) of a function over 1..n
RECURSIVE Sum(_, _)
Sum(f, n) == IF n = 0 THEN 0 ELSE f[n] + Sum(f, n - 1)

\* ------------------------------------------------------------ generate_data
\* Mutant of compatibility: the first tier ends below 20 instead of at 20.
compatibility_strict_below(s, ct, rt) ==
    IF s < 20
    THEN 1
    ELSE IF s <= 60
         THEN (IF ct = 0 \/ rt = 0 \/ ct = rt THEN 1 ELSE 0)
         ELSE (IF ct = rt THEN 1 ELSE 0)

\* Lines 90-104: the compatibility flag of one (course, classroom) pair.
compatibility(s, ct, rt) ==
    IF s <= 20
    THEN 1
    ELSE IF s <= 60
         THEN (IF ct = 0 \/ rt = 0 \/ ct = rt THEN 1 ELSE 0)
         ELSE (IF ct = rt THEN 1 ELSE 0)

\* Lines 86-105: the loop over courses and classrooms.
generate_room_compatibility(s, crt, rt) ==
    [cr \in courses \X classrooms |-> compatibility(s, crt[cr[1]], rt[cr[2]])]

\* Line 68: size=int(0.2 * len(periods)).
PreferredCount == (2 * Cardinality(periods)) \div 10

\* Lines 66-70: the draws of one course's preferred periods.
PreferredPeriodSets == {P \in SUBSET periods : Cardinality(P) = PreferredCount}

\* Line 111: a professor is assigned min(3, len(courses)) courses.  The modelled
\* courses are the first NumCourses of the course list, so any number of a
\* professor's courses up to that size may fall among them.
AssignedCourseSets == {A \in SUBSET courses : Cardinality(A) <= MaxAssigned}

\* Lines 112-113.
assignment_flags(assigned) ==
    [pcs \in professors \X courses |-> IF pcs[2] \in assigned[pcs[1]] THEN 1 ELSE 0]

\* ---------------------------------------------------------- the Pyomo model
\* Line 159: `period in course_preferred_periods[c]`, where the right-hand side
\* is the array np.random.choice returned: the test is (array == period).any().
PeriodIn(period, chosen) ==
    \E q \in chosen : q[1] = period[1] \/ q[2] = period[2]

\* Lines 156-160.
course_period_preference(cpp) ==
    [cp \in courses \X periods |-> IF PeriodIn(cp[2], cpp[cp[1]]) THEN 1 ELSE 0]

\* Lines 137-164: sets, parameters and the (still unassigned) decision grid.
ConcreteModel ==
    [ CourseSessions |-> course_sessions,
      Enrollment |-> enrollment,
      Capacity |-> capacity,
      RoomCompatibility |-> room_compatibility,
      ProfCourseAssignments |-> prof_course_assignments,
      ProfAvailability |-> prof_availability,
      CoursePeriodPreference |-> course_period_preference(course_preferred_periods),
      Schedule |-> NoValues ]

\* Number of sessions of course c at day d, slot t over all rooms.
RoomSum(m, c, d, t) == Sum([r \in classrooms |-> m.Schedule[<<c, r, d, t>>]], NumClassrooms)

\* Number of sessions of course c in room r over all periods.
PeriodSum(m, c, r) ==
    Sum([d \in days |-> Sum([t \in time_slots |-> m.Schedule[<<c, r, d, t>>]], NumTimeSlots)],
        NumDays)

\* Lines 183-186: sessions_scheduled[c].
SessionsScheduled(m, c) == Sum([r \in classrooms |-> PeriodSum(m, c, r)], NumClassrooms)

\* Lines 200-201.
one_room_per_period_rule(m, c, d, t) == RoomSum(m, c, d, t) <= 1

\* Mutant of one_course_per_room_rule: the right-hand side is 2.
one_course_per_room_rule_two(m, r, d, t) ==
    Sum([c \in courses |-> m.Schedule[<<c, r, d, t>>]], num_courses) <= 2

\* Lines 207-208.
one_course_per_room_rule(m, r, d, t) ==
    Sum([c \in courses |-> m.Schedule[<<c, r, d, t>>]], num_courses) <= 1

\* Mutant of course_sessions_rule: at least the required sessions.
course_sessions_rule_at_least(m, c) == SessionsScheduled(m, c) >= m.CourseSessions[c]

\* Mutant of course_sessions_rule: at most the required sessions.
course_sessions_rule_at_most(m, c) == SessionsScheduled(m, c) <= m.CourseSessions[c]

\* Lines 214-216.
course_sessions_rule(m, c) == SessionsScheduled(m, c) = m.CourseSessions[c]

\* Mutant of room_capacity_rule: the enrollment coefficient is dropped.
room_capacity_rule_no_enrollment(m, c, r, d, t) ==
    m.Schedule[<<c, r, d, t>>] <= m.Capacity[r]

\* Lines 221-222.
room_capacity_rule(m, c, r, d, t) ==
    m.Enrollment[c] * m.Schedule[<<c, r, d, t>>] <= m.Capacity[r]

\* Mutant of prof_schedule_rule: one row per course instead of one sum over the
\* professor's courses.
prof_schedule_rule_per_course(m, p, d, t) ==
    \A c \in courses : m.ProfCourseAssignments[<<p, c>>] * RoomSum(m, c, d, t) <= 1

\* Lines 228-230.
prof_schedule_rule(m, p, d, t) ==
    Sum([c \in courses |-> m.ProfCourseAssignments[<<p, c>>] * RoomSum(m, c, d, t)],
        num_courses) <= 1

\* Mutant of prof_availability_rule: the test of the assignment is inverted.
prof_availability_rule_inverted(m, p, c, d, t) ==
    IF m.ProfCourseAssignments[<<p, c>>] = 0
    THEN RoomSum(m, c, d, t) <= m.ProfAvailability[<<p, <<d, t>>>>]
    ELSE TRUE

\* Lines 236-243; Constraint.Skip adds no row.
prof_availability_rule(m, p, c, d, t) ==
    IF m.ProfCourseAssignments[<<p, c>>] = 1
    THEN RoomSum(m, c, d, t) <= m.ProfAvailability[<<p, <<d, t>>>>]
    ELSE TRUE

\* Mutant of compatibility_rule: the flag is replaced by the variable's bound.
compatibility_rule_unit_bound(m, c, r, d, t) ==
    m.Schedule[<<c, r, d, t>>] <= 1

\* Lines 249-250.
compatibility_rule(m, c, r, d, t) ==
    m.Schedule[<<c, r, d, t>>] <= m.RoomCompatibility[<<c, r>>]

\* The rows with one decision variable or with non-negative coefficients and a
\* <= sense (every family but the session equality).
UpperRows(m) ==
    /\ \A i \in ScheduleIndex : compatibility_rule(m, i[1], i[2], i[3], i[4])
    /\ \A i \in ScheduleIndex : room_capacity_rule(m, i[1], i[2], i[3], i[4])
    /\ \A c \in courses, d \in days, t \in time_slots : one_room_per_period_rule(m, c, d, t)
    /\ \A r \in classrooms, d \in days, t \in time_slots : one_course_per_room_rule(m, r, d, t)
    /\ \A p \in professors, d \in days, t \in time_slots : prof_schedule_rule(m, p, d, t)
    /\ \A p \in professors, c \in courses, d \in days, t \in time_slots :
            prof_availability_rule(m, p, c, d, t)

\* Lines 203-253: all seven constraint families hold at m.Schedule.
Feasible(m) ==
    /\ UpperRows(m)
    /\ \A c \in courses : course_sessions_rule(m, c)

\* Lines 167-193: the objective value at m.Schedule.
objective_rule(m) ==
    LET preferred_periods_score ==
            Sum([c \in courses |->
                    Sum([d \in days |->
                            Sum([t \in time_slots |->
                                    m.CoursePeriodPreference[<<c, <<d, t>>>>] * RoomSum(m, c, d, t)],
                                NumTimeSlots)],
                        NumDays)],
                num_courses)
        room_compatibility_score ==
            Sum([c \in courses |->
                    Sum([r \in classrooms |-> m.RoomCompatibility[<<c, r>>] * PeriodSum(m, c, r)],
                        NumClassrooms)],
                num_courses)
        sessions_met_score ==
            Sum([c \in courses |->
                    IF SessionsScheduled(m, c) >= m.CourseSessions[c] THEN 100 ELSE 0],
                num_courses)
    IN  preferred_periods_score + room_compatibility_score + sessions_met_score

\* ------------------------------------------------------------- the engine
\* The grid point that is 1 exactly on the cells of S.
Point(S) == [i \in ScheduleIndex |-> IF i \in S THEN 1 ELSE 0]

WithSchedule(m, x) == [m EXCEPT !.Schedule = x]

\* Presolve: a cell whose unit point already breaks an upper row is fixed to 0,
\* because raising other variables cannot repair a <= row with coefficients >= 0.
FreeCells(m) == {i \in ScheduleIndex : UpperRows(WithSchedule(m, Point({i})))}

\* Line 258: the points of the binary grid that satisfy every constraint.
FeasibleSet(m) ==
    {x \in {Point(S) : S \in SUBSET FreeCells(m)} : Feasible(WithSchedule(m, x))}

\* Line 195, sense=maximize: the feasible points of greatest objective value.
OptimalSet(m) ==
    LET F == FeasibleSet(m)
    IN  {x \in F : \A y \in F :
            objective_rule(WithSchedule(m, y)) <= objective_rule(WithSchedule(m, x))}

\* The termination conditions of a solve that ended without a proof.
EarlyStop == {"maxTimeLimit", "unknown"}

\* Lines 256-258: results.solver.status as the appsi_highs interface derives it
\* from the engine's termination condition.
legacy_solver_status(tc) ==
    CASE tc = "optimal" -> "ok"
      [] tc = "maxTimeLimit" -> "aborted"
      [] tc = "infeasible" -> "error"
      [] tc = "error" -> "error"
      [] OTHER -> "unknown"

\* ------------------------------------------------------------- projection
CellsPerCourse == NumClassrooms * NumDays * NumTimeSlots
CellsPerRoom == NumDays * NumTimeSlots

\* Lines 273-276: the grid cells in the order the nested loops visit them.
LoopOrder ==
    [k \in 1 .. (num_courses * CellsPerCourse) |->
        << ((k - 1) \div CellsPerCourse) + 1,
           (((k - 1) % CellsPerCourse) \div CellsPerRoom) + 1,
           (((k - 1) % CellsPerRoom) \div NumTimeSlots) + 1,
           ((k - 1) % NumTimeSlots) + 1 >>]

NoProfessor == 0

\* Mutant of TeachingProfessor: the last assigned professor of the list.
TeachingProfessor_last(c) ==
    LET teaching == {p \in professors : prof_course_assignments[<<p, c>>] = 1}
    IN  IF teaching = {} THEN NoProfessor
        ELSE CHOOSE p \in teaching : \A q \in teaching : p >= q

\* Line 279: next((p for p in professors if ...), None).
TeachingProfessor(c) ==
    LET teaching == {p \in professors : prof_course_assignments[<<p, c>>] = 1}
    IN  IF teaching = {} THEN NoProfessor
        ELSE CHOOSE p \in teaching : \A q \in teaching : p <= q

\* Lines 281-290.
Record(i) ==
    [ Course |-> i[1], Room |-> i[2], Day |-> i[3], TimeSlot |-> i[4],
      Students |-> enrollment[i[1]], RoomCapacity |-> capacity[i[2]],
      RoomType |-> room_type[i[2]], Professor |-> TeachingProfessor(i[1]) ]

\* Line 277: pyo.value(model.Schedule[c, r, d, t]) > 0.5.
Selected(m, i) == 2 * m.Schedule[i] > 1

\* Lines 272-290.
ExtractSchedule(m) ==
    LET chosen == SelectSeq(LoopOrder, LAMBDA i : Selected(m, i))
    IN  [k \in 1 .. Len(chosen) |-> Record(chosen[k])]

\* Line 299: the record's (Day, Time Slot) tested with `in` against the array of
\* the course's preferred periods.
InPreferredPeriod(row) ==
    PeriodIn(<<row.Day, row.TimeSlot>>, course_preferred_periods[row.Course])

\* Lines 297-302.  The two percentages are kept as whole percents.
SummaryMetrics(data) ==
    LET total_sessions == Len(data)
        sessions_in_preferred_periods ==
            Cardinality({k \in 1 .. Len(data) : InPreferredPeriod(data[k])})
        students == Sum([k \in 1 .. Len(data) |-> data[k].Students], Len(data))
        seats == Sum([k \in 1 .. Len(data) |-> data[k].RoomCapacity], Len(data))
    IN  [ computed |-> TRUE,
          total_sessions |-> total_sessions,
          sessions_in_preferred_periods |-> sessions_in_preferred_periods,
          preferred_period_pct |->
              IF total_sessions > 0
              THEN (sessions_in_preferred_periods * 100) \div total_sessions
              ELSE 0,
          avg_capacity_utilization |-> (students * 100) \div seats ]

\* Mutant of StatusOk: every status but an error counts as success.
StatusOk_not_error(st) == st # "error"

\* Line 268.
StatusOk(st) == st = "ok"

\* ------------------------------------------------------------------ states
RandomDraws(sessions, students, seats, assignable, available, preferred) ==
    /\ course_sessions \in [courses -> sessions]
    /\ enrollment \in [courses -> students]
    /\ capacity \in [classrooms -> seats]
    /\ \E assigned \in [professors -> assignable] :
            prof_course_assignments = assignment_flags(assigned)
    /\ prof_availability \in [professors \X periods -> available]
    /\ course_preferred_periods \in [courses -> preferred]

NothingRun ==
    /\ model = NotBuilt
    /\ termination = NoResult
    /\ status = NoResult
    /\ schedule_data = << >>
    /\ metrics = NoMetrics
    /\ message = NoResult

TypeDraws(levels) == levels \X [courses -> RoomTypes] \X [classrooms -> RoomTypes]

\* One draw of (specialization, course types, room types) for every
\* compatibility matrix that generate_data can produce.
RepresentativeDraws ==
    LET all == TypeDraws(TierLevels)
        matrices == {generate_room_compatibility(g[1], g[2], g[3]) : g \in all}
    IN  {CHOOSE g \in all : generate_room_compatibility(g[1], g[2], g[3]) = mx :
            mx \in matrices}

Init ==
    /\ num_courses = NumCourses
    /\ num_professors = NumProfessors
    /\ \E g \in RepresentativeDraws :
            /\ classroom_specialization = g[1]
            /\ course_room_type = g[2]
            /\ room_type = g[3]
    /\ RandomDraws(MinCourseSessions .. MaxCourseSessions, EnrollmentValues, CapacityValues,
                   AssignedCourseSets, {0, 1}, PreferredPeriodSets)
    /\ room_compatibility = NotGenerated
    /\ cached_seeds = {}
    /\ NothingRun
    /\ pc = "start"

\* Lines 46-48 and 127-129: a call generate_data() under st.cache_data.  The entry
\* is looked up by the function's arguments, that is by the seed alone; the slider
\* values the body reads are no part of the key.  On a miss the body runs with
\* the slider values of this script run and its return value is stored.
generate_data(seed) ==
    IF seed \in cached_seeds
    THEN UNCHANGED <<draws, room_compatibility, cached_seeds>>
    ELSE /\ room_compatibility' =
                generate_room_compatibility(classroom_specialization', course_room_type,
                                            room_type)
         /\ cached_seeds' = cached_seeds \cup {seed}
         /\ UNCHANGED draws

\* Lines 127-129: the first script run of the session.
GenerateData ==
    /\ pc = "start"
    /\ UNCHANGED controls
    /\ generate_data(DefaultSeed)
    /\ pc' = "idle"
    /\ UNCHANGED outputs

\* Lines 264-266 and 136-253: the button is pressed and the model is assembled.
BuildModel ==
    /\ pc = "idle"
    /\ model' = ConcreteModel
    /\ pc' = "built"
    /\ UNCHANGED <<params, termination, status, schedule_data, metrics, message>>

\* Lines 256-261: the engine returns.  With a feasible point it proves optimality
\* or stops early on its best point; without one it proves infeasibility or stops
\* early with nothing; or the engine itself fails.
Solve ==
    /\ pc = "built"
    /\ LET F == FeasibleSet(model)
       IN  \/ /\ F # {}
              /\ \E x \in OptimalSet(model) : model' = WithSchedule(model, x)
              /\ termination' = "optimal"
           \/ /\ F = {}
              /\ model' = model
              /\ termination' = "infeasible"
           \/ /\ \E x \in F \cup {NoValues} : model' = WithSchedule(model, x)
              /\ termination' \in EarlyStop
           \/ /\ model' = model
              /\ termination' = "error"
    /\ status' = legacy_solver_status(termination')
    /\ pc' = "solved"
    /\ UNCHANGED <<params, schedule_data, metrics, message>>

\* Lines 268-402: the projection and the message shown.
Project ==
    /\ pc = "solved"
    /\ IF StatusOk(status)
       THEN IF model.Schedule = NoValues
            THEN \* line 277: pyo.value of a variable without a value raises
                 /\ schedule_data' = << >>
                 /\ metrics' = NoMetrics
                 /\ message' = "exception"
            ELSE /\ schedule_data' = ExtractSchedule(model)
                 /\ IF schedule_data' # << >>
                    THEN \* lines 293-398: the metrics and the views
                         /\ metrics' = SummaryMetrics(schedule_data')
                         /\ message' = "schedule"
                    ELSE \* lines 399-400: "No feasible schedule found. ..."
                         /\ metrics' = NoMetrics
                         /\ message' = "no_schedule"
       ELSE \* lines 401-402: "Optimization failed to find a solution."
            /\ schedule_data' = << >>
            /\ metrics' = NoMetrics
            /\ message' = "failed"
    /\ pc' = "shown"
    /\ UNCHANGED <<params, model, termination, status>>

\* A script run with the button released draws no results.
ClearOutputs ==
    /\ model' = NotBuilt
    /\ termination' = NoResult
    /\ status' = NoResult
    /\ schedule_data' = << >>
    /\ metrics' = NoMetrics
    /\ message' = NoResult

\* A widget interaction that changes no slider reruns the script with the button
\* released: generate_data() is called again and the results are no longer drawn.
Rerun ==
    /\ pc = "shown"
    /\ UNCHANGED controls
    /\ generate_data(DefaultSeed)
    /\ ClearOutputs
    /\ pc' = "idle"

\* Line 44 and 127-129: the specialization slider is moved to another value and
\* the script reruns with the button released.
ChangeSpecialization ==
    /\ pc \in {"idle", "shown"}
    /\ \E s \in TierLevels \ {classroom_specialization} : classroom_specialization' = s
    /\ UNCHANGED <<num_courses, num_professors>>
    /\ generate_data(DefaultSeed)
    /\ ClearOutputs
    /\ pc' = "idle"

Next == GenerateData \/ BuildModel \/ Solve \/ Project \/ Rerun

Spec == Init /\ [][Next]_vars

\* The compatibility tiers over every specialization level and every pair of
\* types, with one draw of the other random values.
InitCompat ==
    /\ num_courses = NumCourses
    /\ num_professors = NumProfessors
    /\ \E g \in TypeDraws(SpecializationLevels) :
            /\ classroom_specialization = g[1]
            /\ course_room_type = g[2]
            /\ room_type = g[3]
    /\ RandomDraws({MinCourseSessions}, {30}, {90}, {courses}, {1}, PreferredPeriodSets)
    /\ room_compatibility = NotGenerated
    /\ cached_seeds = {}
    /\ NothingRun
    /\ pc = "start"

NextCompat == GenerateData \/ BuildModel

SpecCompat == InitCompat /\ [][NextCompat]_vars

\* The preference test over every array of periods np.random.choice can hand to
\* it, with one draw of the other random values.
InitPref ==
    /\ num_courses = NumCourses
    /\ num_professors = NumProfessors
    /\ \E g \in RepresentativeDraws :
            /\ classroom_specialization = g[1]
            /\ course_room_type = g[2]
            /\ room_type = g[3]
    /\ RandomDraws({MinCourseSessions}, {30}, {90}, {{}}, {1}, SUBSET periods)
    /\ room_compatibility = NotGenerated
    /\ cached_seeds = {}
    /\ NothingRun
    /\ pc = "start"

SpecPref == InitPref /\ [][Next]_vars

\* Parameter Sets of every course count down to none, with one draw of the
\* other random values.
InitEmpty ==
    /\ num_courses \in 0 .. NumCourses
    /\ num_professors = NumProfessors
    /\ \E g \in RepresentativeDraws :
            /\ classroom_specialization = g[1]
            /\ course_room_type = g[2]
            /\ room_type = g[3]
    /\ RandomDraws({MinCourseSessions}, EnrollmentValues, {40}, AssignedCourseSets, {1},
                   PreferredPeriodSets)
    /\ room_compatibility = NotGenerated
    /\ cached_seeds = {}
    /\ NothingRun
    /\ pc = "start"

SpecEmpty == InitEmpty /\ [][Next]_vars

\* A session in which the specialization slider is moved between runs, with one
\* draw of the sessions, sizes and availability.
InitCache ==
    /\ num_courses = NumCourses
    /\ num_professors = NumProfessors
    /\ \E g \in RepresentativeDraws :
            /\ classroom_specialization = g[1]
            /\ course_room_type = g[2]
            /\ room_type = g[3]
    /\ RandomDraws({MinCourseSessions}, {30}, {90}, AssignedCourseSets, {1},
                   PreferredPeriodSets)
    /\ room_compatibility = NotGenerated
    /\ cached_seeds = {}
    /\ NothingRun
    /\ pc = "start"

NextCache == Next \/ ChangeSpecialization

SpecCache == InitCache /\ [][NextCache]_vars

\* Several professors, each with any assignment to the courses, with one draw of
\* the sizes and the availability.
InitProf ==
    /\ num_courses = NumCourses
    /\ num_professors = SeveralProfessors
    /\ \E g \in RepresentativeDraws :
            /\ classroom_specialization = g[1]
            /\ course_room_type = g[2]
            /\ room_type = g[3]
    /\ RandomDraws(MinCourseSessions .. MaxCourseSessions, {30}, {90}, AssignedCourseSets, {1},
                   PreferredPeriodSets)
    /\ room_compatibility = NotGenerated
    /\ cached_seeds = {}
    /\ NothingRun
    /\ pc = "start"

SpecProf == InitProf /\ [][Next]_vars

\* ------------------------------------------------------------ properties
\* A solve whose assignment is accepted: the engine ended Optimal, or stopped
\* early (TimeLimit) holding an assignment.
Accepted ==
    /\ pc \in {"solved", "shown"}
    /\ termination \in {"optimal"} \cup EarlyStop
    /\ model.Schedule # NoValues

\* The cells of the grid that the accepted assignment sets to 1.
Ones == {i \in ScheduleIndex : model.Schedule[i] = 1}

Emitted == {schedule_data[k] : k \in 1 .. Len(schedule_data)}

\* C1: in every accepted solution each course has exactly CourseSessions[c]
\* cells (classroom, day, slot) at 1, never fewer and never more.
C1_ExactSessions ==
    Accepted => \A c \in courses :
        Cardinality({i \in Ones : i[1] = c}) = course_sessions[c]

C1_Witness ==
    /\ Accepted
    /\ pc = "shown"
    /\ \E c, e \in courses :
        /\ course_sessions[c] = MaxCourseSessions
        /\ course_sessions[e] = MinCourseSessions
        /\ Cardinality({i \in Ones : i[1] = c}) = MaxCourseSessions
        /\ Cardinality({i \in Ones : i[1] = e}) = MinCourseSessions

\* C2: no two distinct emitted records share a (Day, TimeSlot) together with
\* the same Room or with the same Course.
C2_NoDoubleBooking ==
    \A k, l \in 1 .. Len(schedule_data) :
        (/\ k # l
         /\ schedule_data[k].Day = schedule_data[l].Day
         /\ schedule_data[k].TimeSlot = schedule_data[l].TimeSlot)
        => /\ schedule_data[k].Room # schedule_data[l].Room
           /\ schedule_data[k].Course # schedule_data[l].Course

C2_Witness ==
    /\ pc = "shown"
    /\ \E k, l \in 1 .. Len(schedule_data) :
        /\ k # l
        /\ schedule_data[k].Day = schedule_data[l].Day
        /\ schedule_data[k].TimeSlot = schedule_data[l].TimeSlot
        /\ schedule_data[k].Room # schedule_data[l].Room
    /\ \E k, l \in 1 .. Len(schedule_data) :
        /\ k # l
        /\ schedule_data[k].Room = schedule_data[l].Room
        /\ schedule_data[k].Course # schedule_data[l].Course

\* C3: in every accepted solution, for every professor and every period, at most
\* one session is scheduled over all the courses the professor teaches and all
\* classrooms.
C3_NoProfessorClash ==
    Accepted => \A p \in professors, d \in days, t \in time_slots :
        Cardinality({i \in Ones :
            i[3] = d /\ i[4] = t /\ prof_course_assignments[<<p, i[1]>>] = 1}) <= 1

C3_Witness ==
    /\ Accepted
    /\ \E p \in professors, c, e \in courses, i, j \in Ones :
        /\ c # e
        /\ prof_course_assignments[<<p, c>>] = 1
        /\ prof_course_assignments[<<p, e>>] = 1
        /\ i[1] = c
        /\ j[1] = e
        /\ i[2] # j[2]

\* C4: in every accepted solution no session of a course is scheduled at a period
\* where a professor assigned to it is unavailable; a (professor, course) pair
\* without the assignment relation adds no restriction, whatever the course's
\* sessions at that period are.
C4_Availability ==
    /\ Accepted => \A p \in professors, i \in Ones :
            prof_course_assignments[<<p, i[1]>>] = 1
                => prof_availability[<<p, <<i[3], i[4]>>>>] = 1
    /\ pc \in {"built", "solved", "shown"} =>
            \A p \in professors, c \in courses, d \in days, t \in time_slots :
                prof_course_assignments[<<p, c>>] = 0 =>
                    \A R \in SUBSET classrooms :
                        prof_availability_rule(
                            WithSchedule(model, Point({<<c, r, d, t>> : r \in R})), p, c, d, t)

C4_Witness ==
    /\ Accepted
    /\ \E p \in professors, i, j \in Ones :
        /\ prof_course_assignments[<<p, i[1]>>] = 1
        /\ prof_availability[<<p, <<i[3], i[4]>>>>] = 1
        /\ \E t \in time_slots : prof_availability[<<p, <<i[3], t>>>>] = 0
        /\ prof_course_assignments[<<p, j[1]>>] = 0
        /\ prof_availability[<<p, <<j[3], j[4]>>>>] = 0

\* A course that fits in no classroom.
Oversized(c) == \A r \in classrooms : enrollment[c] > capacity[r]

\* C5: in every accepted solution a cell at 1 has Enrollment[c] <= Capacity[r];
\* a course whose enrollment exceeds every capacity appears in no emitted record,
\* and when it requires at least one session the engine finds no assignment: it
\* never ends Optimal, and a verdict it reaches is Infeasible.
C5_Capacity ==
    /\ Accepted => \A i \in Ones : enrollment[i[1]] <= capacity[i[2]]
    /\ \A rec \in Emitted : ~Oversized(rec.Course) /\ rec.Students <= rec.RoomCapacity
    /\ (/\ pc \in {"solved", "shown"}
        /\ \E c \in courses : Oversized(c) /\ course_sessions[c] >= 1)
       => /\ termination # "optimal"
          /\ model.Schedule = NoValues
          /\ schedule_data = << >>

\* An accepted solution that kept a course out of a compatible room too small
\* for it.
C5_Witness ==
    /\ Accepted
    /\ pc = "shown"
    /\ \E i \in Ones, r \in classrooms :
        /\ enrollment[i[1]] > capacity[r]
        /\ room_compatibility[<<i[1], r>>] = 1

\* A run found infeasible only because one course fits in no classroom.
C5_OversizedReached ==
    /\ pc = "shown"
    /\ termination = "infeasible"
    /\ \E c, e \in courses : Oversized(c) /\ ~Oversized(e)
    /\ \A c \in courses, r \in classrooms : room_compatibility[<<c, r>>] = 1

\* C6: in every accepted solution a cell at 1 has RoomCompatibility[c,r] = 1, so
\* an incompatible (course, classroom) pair has every variable at 0 and appears
\* in no emitted record.
C6_Compatibility ==
    /\ Accepted => \A i \in ScheduleIndex :
            room_compatibility[<<i[1], i[2]>>] = 0 => model.Schedule[i] = 0
    /\ \A rec \in Emitted : room_compatibility[<<rec.Course, rec.Room>>] = 1

C6_Witness ==
    /\ Accepted
    /\ pc = "shown"
    /\ schedule_data # << >>
    /\ \E c \in courses, r \in classrooms :
        /\ room_compatibility[<<c, r>>] = 0
        /\ enrollment[c] <= capacity[r]

\* C7: a solve that ends TimeLimit or Unknown is never reported as a completed
\* (Optimal) run: the page shows the failure message and no record is projected,
\* so no projected assignment lacks a non-optimal tag.
C7_TimeLimitNotOptimal ==
    (pc = "shown" /\ termination \in EarlyStop)
        => message = "failed" /\ schedule_data = << >>

C7_Witness ==
    /\ pc = "shown"
    /\ termination = "maxTimeLimit"
    /\ model.Schedule # NoValues
    /\ Ones # {}

\* C8 (as claimed): on Infeasible no record is emitted and the outcome shown is
\* one that no other solver result produces.
C8_InfeasibleDistinct ==
    pc = "shown" =>
        /\ termination = "infeasible" => schedule_data = << >> /\ message = "failed"
        /\ message = "failed" => termination = "infeasible"

\* C9: when every (course, classroom) pair is incompatible and some course
\* requires a session, no point of the binary grid satisfies the constraint set,
\* and a verdict of the engine is Infeasible.
AllIncompatible == \A c \in courses, r \in classrooms : room_compatibility[<<c, r>>] = 0

C9_AllIncompatibleInfeasible ==
    (/\ pc \in {"built", "solved", "shown"}
     /\ AllIncompatible
     /\ \E c \in courses : course_sessions[c] >= 1)
    => /\ \A S \in SUBSET ScheduleIndex : ~Feasible(WithSchedule(model, Point(S)))
       /\ termination # "optimal"

C9_Witness ==
    /\ pc = "solved"
    /\ AllIncompatible
    /\ termination = "infeasible"
    /\ \A c \in courses, r \in classrooms : enrollment[c] <= capacity[r]
    /\ \A p \in professors, q \in periods : prof_availability[<<p, q>>] = 1

\* C10: the flag of every (course, classroom) pair is 1 for s <= 20; for
\* 21 <= s <= 60 it is 1 exactly when either type is standard (0) or the types
\* are equal; for s > 60 it is 1 exactly when the types are equal; and the model
\* carries that flag unchanged.
TierFlag(s, ct, rt) ==
    IF (s <= 20) \/ (s >= 21 /\ s <= 60 /\ (ct = 0 \/ rt = 0 \/ ct = rt))
                 \/ (s > 60 /\ ct = rt)
    THEN 1 ELSE 0

C10_CompatibilityTiers ==
    /\ pc # "start" => \A c \in courses, r \in classrooms :
            room_compatibility[<<c, r>>]
                = TierFlag(classroom_specialization, course_room_type[c], room_type[r])
    /\ pc = "built" => model.RoomCompatibility = room_compatibility

C10_Witness ==
    /\ pc = "built"
    /\ classroom_specialization = 60
    /\ \E c \in courses, r, q \in classrooms :
        /\ course_room_type[c] # 0
        /\ room_type[r] = 0
        /\ room_type[q] \notin {0, course_room_type[c]}
        /\ model.RoomCompatibility[<<c, r>>] = 1
        /\ model.RoomCompatibility[<<c, q>>] = 0

C13_ParameterSetOfCurrentControls ==
    pc \in {"built", "solved", "shown"} =>
        model.RoomCompatibility =
            generate_room_compatibility(classroom_specialization, course_room_type, room_type)

\* The professors assigned to course c.
Teaching(c) == {p \in professors : prof_course_assignments[<<p, c>>] = 1}

\* C14: every emitted record of course c reports the first professor of the
\* professor list who is assigned to c, or none when nobody is; the value is
\* fixed by the Parameter Set, so all records of one course report the same
\* professor whatever assignment the engine returned.
C14_FirstProfessor ==
    /\ \A rec \in Emitted :
            IF Teaching(rec.Course) = {}
            THEN rec.Professor = NoProfessor
            ELSE /\ rec.Professor \in Teaching(rec.Course)
                 /\ \A q \in Teaching(rec.Course) : rec.Professor <= q
    /\ \A a, b \in Emitted : a.Course = b.Course => a.Professor = b.Professor

\* Reached: two records of a course that several professors teach, beside a
\* record of a course that nobody teaches.
C14_Witness ==
    /\ pc = "shown"
    /\ \E c, e \in courses :
            /\ Cardinality(Teaching(c)) >= 2
            /\ Cardinality({k \in 1 .. Len(schedule_data) : schedule_data[k].Course = c}) >= 2
            /\ Teaching(e) = {}
            /\ \E rec \in Emitted : rec.Course = e /\ rec.Professor = NoProfessor

====
